---- MODULE Spec2Model ----
(***************************************************************************)
(* Model of src/buffer_pool.rs: a bounded pool of recycled Vec<u8>         *)
(* buffers (Inner, BufferPool) and the scoped handle PooledBuf that        *)
(* returns its storage to the pool when it is dropped.                     *)
(*                                                                         *)
(* Threads call BufferPool::get, write through as_mut, read through deref  *)
(* and drop the handle.  Every access to shared state (the ArrayQueue, the *)
(* Arc strong count) is one step, so the steps of different threads        *)
(* interleave freely.                                                      *)
(***************************************************************************)
EXTENDS Integers, Sequences, FiniteSets, TLC

\* ------------------------------------------------------------------ bounds
MaxPoolCap == 2
MaxBufferCap == 1
MaxVecCap == 1

Threads == {1, 2}
Bytes == {1, 2}

VARIABLES
    env,         \* the two environment variables BufferPool::new reads
    pool_cap,    \* RUST_MYSQL_BUFFER_POOL_CAP as parsed by BufferPool::new
    buffer_cap,  \* Inner::buffer_cap
    inner,       \* TRUE iff BufferPool.0 is Some(Arc<Inner>)
    pool,        \* Inner::pool, the ArrayQueue<Vec<u8>>, oldest first
    strong,      \* strong count of the Arc<Inner>
    alive,       \* TRUE while the Inner allocation has not been freed
    owner,       \* owner[t]: thread t holds a BufferPool value
    pc,          \* pc[t]: position of thread t
    handle,      \* handle[t]: the PooledBuf of thread t, [buf, origin]
    buf,         \* buf[t]: the local `buf` of Inner::get / Inner::put
    panicked,    \* a panic or an access to a freed Inner has happened
    \* history variables, read by the properties only
    got,         \* got[t]: what pool.pop() returned for the untouched handle
    written,     \* written[t]: the bytes appended since get returned
    puts,        \* puts[t]: calls of Inner::put for the current handle
    taken,       \* taken[t]: length, capacity and bytes the running drop moved out
    opSteps,     \* opSteps[t]: steps taken by the running get / drop
    rt           \* the round trip in progress (acquire, write, drop, acquire)

vars == << env, pool_cap, buffer_cap, inner, pool, strong, alive, owner, pc, handle,
           buf, panicked, got, written, puts, taken, opSteps, rt >>

Max(a, b) == IF a >= b THEN a ELSE b
Min(a, b) == IF a <= b THEN a ELSE b

\* ------------------------------------------------------------- Vec<u8>
\* A Vec<u8> is its length, its capacity and the bytes its backing store
\* holds (mem, at most cap of them; the bytes past len are stale).

\* Vec::new(), vec![], Vec::default()
EmptyVec == [len |-> 0, cap |-> 0, mem |-> << >>]

\* a length reset that also gives the storage back
SetLenRealloc(v) == EmptyVec

\* Inner::get without the length reset
SetLenKeep(v) == v

\* unsafe { buf.set_len(0) }: the length only, the store is left as it is
SetLenZero(v) == [v EXCEPT !.len = 0]

\* a put that resets the length before it shrinks
ShrinkToAfterReset(v, min_capacity) ==
    IF v.cap > min_capacity
    THEN [len |-> 0, cap |-> min_capacity,
          mem |-> SubSeq(v.mem, 1, Min(Len(v.mem), min_capacity))]
    ELSE [v EXCEPT !.len = 0]

\* buf.shrink_to(min_capacity): the capacity stays at least the length
ShrinkTo(v, min_capacity) ==
    IF v.cap > min_capacity
    THEN LET c == Max(v.len, min_capacity)
         IN  [v EXCEPT !.cap = c, !.mem = SubSeq(v.mem, 1, Min(Len(v.mem), c))]
    ELSE v

\* Vec::push through as_mut: byte b is stored at index len; a full Vec is
\* reallocated to capacity newcap first (the growth strategy is unspecified)
VecPush(v, b, newcap) ==
    [len |-> v.len + 1,
     cap |-> IF v.len = v.cap THEN newcap ELSE v.cap,
     mem |-> SubSeq(v.mem, 1, v.len) \o << b >> \o SubSeq(v.mem, v.len + 2, Len(v.mem))]

\* Deref for PooledBuf: the byte view, the first len bytes
Deref(h) == SubSeq(h.buf.mem, 1, h.buf.len)

\* --------------------------------------------------------- ArrayQueue
\* A queue entry is the stored Vec and, as history, the capacity the Vec
\* had when its handle was dropped.
Entry(v, dropCap) == [vec |-> v, dropCap |-> dropCap]

\* a pop that leaves the buffer it returns in the queue
AfterPopPeek(q) == q

\* pool.pop().unwrap_or_default()
Fresh == [recycled |-> FALSE, vec |-> EmptyVec, dropCap |-> 0]
PopOrDefault(q) ==
    IF q = << >> THEN Fresh
    ELSE [recycled |-> TRUE, vec |-> Head(q).vec, dropCap |-> Head(q).dropCap]
\* what the history keeps of a popped buffer
Popped(r) ==
    [recycled |-> r.recycled, len |-> r.vec.len, cap |-> r.vec.cap, dropCap |-> r.dropCap]
NoPop == Popped(Fresh)
NoTake == [len |-> 0, cap |-> 0, view |-> << >>, pushed |-> "no"]
AfterPop(q) == IF q = << >> THEN q ELSE Tail(q)

\* a queue that takes one buffer more than its capacity
QueueFullOffByOne(q, cap) == Len(q) > cap

\* ArrayQueue::push fails (returns Err) when the queue holds cap entries
QueueFull(q, cap) == Len(q) >= cap

\* a push that does not look at the capacity
AfterPushAlways(q, cap, e) == Append(q, e)
\* a push with the full test inverted
AfterPushInverted(q, cap, e) == IF QueueFull(q, cap) THEN Append(q, e) ELSE q

\* a push that makes room by evicting the oldest buffer (force_push)
AfterPushEvict(q, cap, e) ==
    IF QueueFull(q, cap) THEN Append(Tail(q), e) ELSE Append(q, e)

\* let _ = pool.push(buf): a full queue refuses the buffer, which is dropped
AfterPush(q, cap, e) == IF QueueFull(q, cap) THEN q ELSE Append(q, e)

\* a pool that is enabled whatever its capacity
PoolEnabledAlways(cap) == cap >= 0

\* (pool_cap > 0).then(...)
PoolEnabled(cap) == cap > 0

\* ------------------------------------------------------- configuration
DEFAULT_MYSQL_BUFFER_POOL_CAP == 128
DEFAULT_MYSQL_BUFFER_SIZE_CAP == 4 * 1024 * 1024

\* An environment variable is unset, or set to a text (a sequence of
\* characters).
Unset == [set |-> FALSE, text |-> << >>]
EnvText(s) == [set |-> TRUE, text |-> s]

Digits == << "0", "1", "2", "3", "4", "5", "6", "7", "8", "9" >>
IsDigit(c) == \E i \in 1..10 : Digits[i] = c
DigitVal(c) == (CHOOSE i \in 1..10 : Digits[i] = c) - 1
\* the decimal text of a one-digit number
Numeral(n) == << Digits[n + 1] >>

\* the value of a sequence of digits, most significant first
RECURSIVE DigitsValue(_)
DigitsValue(s) ==
    IF s = << >> THEN 0
    ELSE 10 * DigitsValue(SubSeq(s, 1, Len(s) - 1)) + DigitVal(s[Len(s)])

\* x.parse::<usize>(): an optional "+" and at least one digit, nothing else
ParseUsize(s) ==
    LET d == IF s # << >> /\ s[1] = "+" THEN Tail(s) ELSE s
    IN  IF d # << >> /\ \A i \in 1..Len(d) : IsDigit(d[i])
        THEN [ok |-> TRUE, val |-> DigitsValue(d)]
        ELSE [ok |-> FALSE, val |-> 0]

\* a configuration that falls back to zero instead of the default
EnvOrZero(e, default) ==
    IF e.set /\ ParseUsize(e.text).ok THEN ParseUsize(e.text).val ELSE 0

\* std::env::var(..).ok().and_then(|x| x.parse().ok()).unwrap_or(default)
EnvOr(e, default) ==
    IF e.set /\ ParseUsize(e.text).ok THEN ParseUsize(e.text).val ELSE default

\* --------------------------------------------------------------- state
NoHandle == [buf |-> EmptyVec, origin |-> FALSE]
NoRt == [t |-> 0, phase |-> "none", q0 |-> 0, blen |-> 0]
\* nothing has happened since BufferPool::new
NewRt == [t |-> 0, phase |-> "new", q0 |-> 0, blen |-> 0]

\* BufferPool::new with the environment (pe, be)
New(pe, be) ==
    /\ env = [pool_cap |-> pe, buffer_cap |-> be]
    /\ pool_cap = EnvOr(pe, DEFAULT_MYSQL_BUFFER_POOL_CAP)
    /\ buffer_cap = EnvOr(be, DEFAULT_MYSQL_BUFFER_SIZE_CAP)
    /\ inner = PoolEnabled(pool_cap)
    /\ pool = << >>
    /\ strong = IF PoolEnabled(pool_cap) THEN 1 ELSE 0
    /\ alive = PoolEnabled(pool_cap)
    /\ owner = [t \in Threads |-> t = 1]
    /\ pc = [t \in Threads |-> "idle"]
    /\ handle = [t \in Threads |-> NoHandle]
    /\ buf = [t \in Threads |-> EmptyVec]
    /\ panicked = (PoolEnabled(pool_cap) /\ pool_cap = 0)  \* ArrayQueue::new(0) panics
    /\ got = [t \in Threads |-> NoPop]
    /\ written = [t \in Threads |-> << >>]
    /\ puts = [t \in Threads |-> 0]
    /\ taken = [t \in Threads |-> NoTake]
    /\ opSteps = [t \in Threads |-> 0]
    /\ rt = NewRt

\* the pool built with both settings given as numbers
Init ==
    \E n \in 0..MaxPoolCap : \E m \in 0..MaxBufferCap :
        New(EnvText(Numeral(n)), EnvText(Numeral(m)))

\* the pool built with settings that are unset, not numbers, or numbers
PoolEnvs == { Unset, EnvText(<< "x" >>), EnvText(<< "-", "1" >>), EnvText(<< "+", "1" >>) }
BufferEnvs == { Unset, EnvText(<< >>), EnvText(<< "0" >>) }
InitConfig == \E pe \in PoolEnvs : \E be \in BufferEnvs : New(pe, be)


\* ------------------------------------------------------ Arc<Inner>
\* Dropping one Arc<Inner>: the last one frees the Inner and its queue.
ArcDrop ==
    /\ strong' = strong - 1
    /\ alive' = (alive /\ strong - 1 > 0)
    /\ pool' = IF strong - 1 > 0 THEN pool ELSE << >>

\* ------------------------------------------------- round-trip history
\* rt follows one thread through acquire, write, drop, acquire; a step of
\* anything else ends the round trip being followed.
RtKeep(t) == rt' = IF rt.t = t THEN rt ELSE NoRt
RtTo(t, from, to) ==
    rt' = IF rt.t = t /\ rt.phase = from THEN [rt EXCEPT !.phase = to]
          ELSE IF rt.t = t THEN rt ELSE NoRt

\* ------------------------------------------------------------ actions
\* #[derive(Clone)] on BufferPool: thread t hands a clone to thread u
ClonePool(t, u) ==
    /\ owner[t] /\ ~owner[u]
    /\ pc[t] \in {"idle", "held"}
    /\ owner' = [owner EXCEPT ![u] = TRUE]
    /\ strong' = IF inner THEN strong + 1 ELSE strong
    /\ panicked' = (panicked \/ (inner /\ ~alive))
    /\ rt' = NoRt
    /\ UNCHANGED << env, pool_cap, buffer_cap, inner, pool, alive, pc, handle, buf,
                    got, written, puts, taken, opSteps >>

\* thread t drops its BufferPool value
DropPool(t) ==
    /\ owner[t]
    /\ pc[t] \in {"idle", "held"}
    /\ owner' = [owner EXCEPT ![t] = FALSE]
    /\ IF inner THEN ArcDrop ELSE UNCHANGED << strong, alive, pool >>
    /\ rt' = NoRt
    /\ UNCHANGED << env, pool_cap, buffer_cap, inner, pc, handle, buf, panicked,
                    got, written, puts, taken, opSteps >>

\* BufferPool::get: match self.0; the None arm returns at once
Get(t) ==
    /\ pc[t] = "idle"
    /\ owner[t]
    /\ got' = [got EXCEPT ![t] = NoPop]
    /\ written' = [written EXCEPT ![t] = << >>]
    /\ puts' = [puts EXCEPT ![t] = 0]
    /\ IF inner
       THEN /\ pc' = [pc EXCEPT ![t] = "pop"]
            /\ opSteps' = [opSteps EXCEPT ![t] = 1]
            /\ rt' = IF rt.t = t /\ rt.phase = "dropped"
                     THEN [rt EXCEPT !.phase = "second"]
                     ELSE [t |-> t, phase |-> "first", q0 |-> Len(pool), blen |-> 0]
            /\ UNCHANGED handle
       ELSE /\ pc' = [pc EXCEPT ![t] = "held"]
            /\ handle' = [handle EXCEPT ![t] = [buf |-> EmptyVec, origin |-> FALSE]]
            /\ opSteps' = [opSteps EXCEPT ![t] = 0]
            /\ rt' = NoRt
    /\ taken' = [taken EXCEPT ![t] = NoTake]
    /\ UNCHANGED << env, pool_cap, buffer_cap, inner, pool, strong, alive, owner, buf,
                    panicked >>

\* Inner::get: let mut buf = self.pool.pop().unwrap_or_default();
Pop(t) ==
    /\ pc[t] = "pop"
    /\ got' = [got EXCEPT ![t] = Popped(PopOrDefault(pool))]
    /\ buf' = [buf EXCEPT ![t] = PopOrDefault(pool).vec]
    /\ pool' = AfterPop(pool)
    /\ panicked' = (panicked \/ ~alive)
    /\ pc' = [pc EXCEPT ![t] = "setlen"]
    /\ opSteps' = [opSteps EXCEPT ![t] = @ + 1]
    /\ RtKeep(t)
    /\ UNCHANGED << env, pool_cap, buffer_cap, inner, strong, alive, owner, handle,
                    written, puts, taken >>

\* Inner::get: unsafe { buf.set_len(0) }
SetLen(t) ==
    /\ pc[t] = "setlen"
    /\ buf' = [buf EXCEPT ![t] = SetLenZero(buf[t])]
    /\ pc' = [pc EXCEPT ![t] = "wrap"]
    /\ opSteps' = [opSteps EXCEPT ![t] = @ + 1]
    /\ RtKeep(t)
    /\ UNCHANGED << env, pool_cap, buffer_cap, inner, pool, strong, alive, owner,
                    handle, panicked, got, written, puts, taken >>

\* a handle that borrows the Inner instead of cloning the Arc
WrapNoClone(t) ==
    /\ pc[t] = "wrap"
    /\ handle' = [handle EXCEPT ![t] = [buf |-> buf[t], origin |-> TRUE]]
    /\ buf' = [buf EXCEPT ![t] = EmptyVec]
    /\ panicked' = (panicked \/ ~alive)
    /\ pc' = [pc EXCEPT ![t] = "held"]
    /\ opSteps' = [opSteps EXCEPT ![t] = 0]
    /\ RtTo(t, "second", "done")
    /\ UNCHANGED << env, pool_cap, buffer_cap, inner, pool, strong, alive, owner, got,
                    written, puts, taken >>

\* a handle built without the back-reference
WrapNoOrigin(t) ==
    /\ pc[t] = "wrap"
    /\ handle' = [handle EXCEPT ![t] = [buf |-> buf[t], origin |-> FALSE]]
    /\ buf' = [buf EXCEPT ![t] = EmptyVec]
    /\ pc' = [pc EXCEPT ![t] = "held"]
    /\ opSteps' = [opSteps EXCEPT ![t] = 0]
    /\ RtTo(t, "second", "done")
    /\ UNCHANGED << env, pool_cap, buffer_cap, inner, pool, strong, alive, owner,
                    panicked, got, written, puts, taken >>

\* Inner::get: PooledBuf(buf, Some(self.clone()))
Wrap(t) ==
    /\ pc[t] = "wrap"
    /\ handle' = [handle EXCEPT ![t] = [buf |-> buf[t], origin |-> TRUE]]
    /\ buf' = [buf EXCEPT ![t] = EmptyVec]
    /\ strong' = strong + 1
    /\ panicked' = (panicked \/ ~alive)
    /\ pc' = [pc EXCEPT ![t] = "held"]
    /\ opSteps' = [opSteps EXCEPT ![t] = 0]
    /\ RtTo(t, "second", "done")
    /\ UNCHANGED << env, pool_cap, buffer_cap, inner, pool, alive, owner, got,
                    written, puts, taken >>

\* AsMut for PooledBuf, then Vec::push of one byte
Write(t) ==
    /\ pc[t] = "held"
    /\ handle[t].buf.len < MaxVecCap
    /\ \E b \in Bytes :
       \E newcap \in (handle[t].buf.len + 1)..MaxVecCap :
          /\ (handle[t].buf.len < handle[t].buf.cap) => (newcap = MaxVecCap)
          /\ handle' = [handle EXCEPT ![t].buf = VecPush(@, b, newcap)]
          /\ written' = [written EXCEPT ![t] = Append(@, b)]
    /\ rt' = IF rt.t = t /\ rt.phase = "first" THEN rt ELSE NoRt
    /\ UNCHANGED << env, pool_cap, buffer_cap, inner, pool, strong, alive, owner, pc,
                    buf, panicked, got, puts, taken, opSteps >>

\* a drop that hands a copy to put and leaves the storage in the handle
DropTakeKeep(t) ==
    /\ pc[t] = "held"
    /\ got' = [got EXCEPT ![t] = NoPop]
    /\ written' = [written EXCEPT ![t] = << >>]
    /\ rt' = NoRt
    /\ IF handle[t].origin
       THEN /\ buf' = [buf EXCEPT ![t] = handle[t].buf]
            /\ taken' = [taken EXCEPT ![t] = [len |-> handle[t].buf.len,
                                               cap |-> handle[t].buf.cap,
                                               view |-> Deref(handle[t]),
                                               pushed |-> "pending"]]
            /\ puts' = [puts EXCEPT ![t] = @ + 1]
            /\ pc' = [pc EXCEPT ![t] = "shrink"]
            /\ opSteps' = [opSteps EXCEPT ![t] = 1]
            /\ UNCHANGED handle
       ELSE /\ handle' = [handle EXCEPT ![t] = NoHandle]
            /\ pc' = [pc EXCEPT ![t] = "idle"]
            /\ opSteps' = [opSteps EXCEPT ![t] = 0]
            /\ taken' = [taken EXCEPT ![t] = [NoTake EXCEPT !.pushed = "freed"]]
            /\ UNCHANGED << buf, puts >>
    /\ UNCHANGED << env, pool_cap, buffer_cap, inner, pool, strong, alive, owner,
                    panicked >>

\* Drop for PooledBuf: if let Some(ref inner) = self.1
\*     { inner.put(replace(&mut self.0, vec![])) }
DropTake(t) ==
    /\ pc[t] = "held"
    /\ got' = [got EXCEPT ![t] = NoPop]
    /\ written' = [written EXCEPT ![t] = << >>]
    /\ rt' = IF rt.t = t /\ rt.phase = "first" /\ handle[t].origin
             THEN [rt EXCEPT !.phase = "dropping", !.blen = handle[t].buf.len]
             ELSE NoRt
    /\ IF handle[t].origin
       THEN /\ buf' = [buf EXCEPT ![t] = handle[t].buf]
            /\ taken' = [taken EXCEPT ![t] = [len |-> handle[t].buf.len,
                                               cap |-> handle[t].buf.cap,
                                               view |-> Deref(handle[t]),
                                               pushed |-> "pending"]]
            /\ handle' = [handle EXCEPT ![t].buf = EmptyVec]
            /\ puts' = [puts EXCEPT ![t] = @ + 1]
            /\ pc' = [pc EXCEPT ![t] = "shrink"]
            /\ opSteps' = [opSteps EXCEPT ![t] = 1]
       ELSE /\ handle' = [handle EXCEPT ![t] = NoHandle]
            /\ pc' = [pc EXCEPT ![t] = "idle"]
            /\ opSteps' = [opSteps EXCEPT ![t] = 0]
            /\ taken' = [taken EXCEPT ![t] = [NoTake EXCEPT !.pushed = "freed"]]
            /\ UNCHANGED << buf, puts >>
    /\ UNCHANGED << env, pool_cap, buffer_cap, inner, pool, strong, alive, owner,
                    panicked >>

\* Inner::put: buf.shrink_to(self.buffer_cap)
Shrink(t) ==
    /\ pc[t] = "shrink"
    /\ buf' = [buf EXCEPT ![t] = ShrinkTo(buf[t], buffer_cap)]
    /\ panicked' = (panicked \/ ~alive)
    /\ pc' = [pc EXCEPT ![t] = "push"]
    /\ opSteps' = [opSteps EXCEPT ![t] = @ + 1]
    /\ RtKeep(t)
    /\ UNCHANGED << env, pool_cap, buffer_cap, inner, pool, strong, alive, owner,
                    handle, got, written, puts, taken >>

\* a put that waits for a free slot instead of giving the buffer up
PushWaits(t) ==
    /\ pc[t] = "push"
    /\ ~QueueFull(pool, pool_cap)
    /\ pool' = Append(pool, Entry(buf[t], taken[t].cap))
    /\ taken' = [taken EXCEPT ![t].pushed = "stored"]
    /\ buf' = [buf EXCEPT ![t] = EmptyVec]
    /\ panicked' = (panicked \/ ~alive)
    /\ pc' = [pc EXCEPT ![t] = "release"]
    /\ opSteps' = [opSteps EXCEPT ![t] = @ + 1]
    /\ RtKeep(t)
    /\ UNCHANGED << env, pool_cap, buffer_cap, inner, strong, alive, owner, handle,
                    got, written, puts >>

\* Inner::put: let _ = self.pool.push(buf)
Push(t) ==
    /\ pc[t] = "push"
    /\ pool' = AfterPush(pool, pool_cap, Entry(buf[t], taken[t].cap))
    /\ taken' = [taken EXCEPT ![t].pushed =
                     IF QueueFull(pool, pool_cap) THEN "dropped" ELSE "stored"]
    /\ buf' = [buf EXCEPT ![t] = EmptyVec]
    /\ panicked' = (panicked \/ ~alive)
    /\ pc' = [pc EXCEPT ![t] = "release"]
    /\ opSteps' = [opSteps EXCEPT ![t] = @ + 1]
    /\ RtKeep(t)
    /\ UNCHANGED << env, pool_cap, buffer_cap, inner, strong, alive, owner, handle,
                    got, written, puts >>

\* end of Drop for PooledBuf: the fields are dropped, self.1 releases its Arc
Release(t) ==
    /\ pc[t] = "release"
    /\ ArcDrop
    /\ handle' = [handle EXCEPT ![t] = NoHandle]
    /\ pc' = [pc EXCEPT ![t] = "idle"]
    /\ opSteps' = [opSteps EXCEPT ![t] = 0]
    /\ taken' = [taken EXCEPT ![t] = NoTake]
    /\ RtTo(t, "dropping", "dropped")
    /\ UNCHANGED << env, pool_cap, buffer_cap, inner, owner, buf, panicked, got,
                    written, puts >>

\* the steps of a running get or drop of thread t
OpStep(t) ==
    Pop(t) \/ SetLen(t) \/ Wrap(t) \/ Shrink(t) \/ Push(t) \/ Release(t)

Next ==
    \/ \E t \in Threads : \E u \in Threads : ClonePool(t, u)
    \/ \E t \in Threads : DropPool(t)
    \/ \E t \in Threads : Get(t)
    \/ \E t \in Threads : Pop(t)
    \/ \E t \in Threads : SetLen(t)
    \/ \E t \in Threads : Wrap(t)
    \/ \E t \in Threads : Write(t)
    \/ \E t \in Threads : DropTake(t)
    \/ \E t \in Threads : Shrink(t)
    \/ \E t \in Threads : Push(t)
    \/ \E t \in Threads : Release(t)

Spec == Init /\ [][Next]_vars

SpecConfig == InitConfig /\ [][Next]_vars

TypeOK ==
    /\ pool_cap \in Nat
    /\ buffer_cap \in Nat
    /\ Len(pool) <= pool_cap
    /\ \A t \in Threads : handle[t].buf.len <= handle[t].buf.cap
    /\ \A t \in Threads : Len(handle[t].buf.mem) <= handle[t].buf.cap


\* ------------------------------------------------------------ properties
\* thread t is inside Inner::get
InGet(t) == pc[t] \in {"pop", "setlen", "wrap"}
\* thread t is inside the drop of a handle of an enabled pool
InDrop(t) == pc[t] \in {"shrink", "push", "release"}
\* thread t holds a handle exactly as get returned it
Untouched(t) == pc[t] = "held" /\ written[t] = << >>
\* thread t owns a handle that carries an Arc<Inner>
HoldsArc(t) == (pc[t] = "held" \/ InDrop(t)) /\ handle[t].origin

\* C1: on an enabled pool the queue never holds more buffers than the
\* configured pool capacity, whatever gets and drops have happened.
C1_QueueWithinCapacity == inner => Len(pool) <= pool_cap

\* C1 witness: a drop met a full queue and its buffer was discarded.
C1_Witness ==
    \E t \in Threads :
        /\ inner /\ pc[t] = "release" /\ taken[t].pushed = "dropped"
        /\ Len(pool) = pool_cap

\* C2: the buffer in a handle that get has just returned has length zero,
\* for an enabled and for a disabled pool, fresh or recycled.
C2_AcquiredLengthZero ==
    \A t \in Threads : Untouched(t) => handle[t].buf.len = 0

\* C2 witness: get returned a recycled buffer that was stored with a
\* length greater than zero.
C2_Witness ==
    \E t \in Threads : Untouched(t) /\ got[t].recycled /\ got[t].len > 0

\* C3: a buffer whose capacity exceeded the ceiling when its handle was
\* dropped has capacity <= ceiling when it is acquired again.
C3_ReacquiredWithinCeiling ==
    \A t \in Threads :
        (Untouched(t) /\ got[t].recycled /\ got[t].dropCap > buffer_cap)
            => handle[t].buf.cap <= buffer_cap

\* C4: a handle of an enabled pool calls Inner::put exactly once, when it
\* is dropped: never before the drop, once when the drop has run, and the
\* drop leaves the handle's own storage empty.
C4_PutExactlyOnce ==
    \A t \in Threads :
        /\ (InGet(t) \/ pc[t] = "held") => puts[t] = 0
        /\ InDrop(t) => (puts[t] = 1 /\ handle[t].buf = EmptyVec)
        /\ puts[t] <= 1

\* C4 witness: the drop of a handle holding bytes has run put to its end.
C4_Witness ==
    \E t \in Threads :
        pc[t] = "release" /\ puts[t] = 1 /\ taken[t].len > 0 /\ handle[t].origin

\* C5: with pool capacity 0 there is no Inner and no queue content, every
\* handle is returned empty and without back-reference, and a drop stores
\* nothing.
C5_DisabledRetainsNothing ==
    pool_cap = 0 =>
        /\ ~inner /\ ~alive /\ strong = 0 /\ pool = << >> /\ ~panicked
        /\ \A t \in Threads :
            /\ pc[t] \in {"idle", "held"}
            /\ ~handle[t].origin
            /\ buf[t] = EmptyVec
            /\ Untouched(t) => handle[t].buf = EmptyVec

\* C5 witness: on a disabled pool one handle was dropped while another
\* thread holds a handle with bytes in it.
C5_Witness ==
    \E t \in Threads : \E u \in Threads :
        /\ pool_cap = 0 /\ t # u
        /\ pc[t] = "idle" /\ taken[t].pushed = "freed"
        /\ pc[u] = "held" /\ handle[u].buf.len > 0

\* C6: with the steps of the threads interleaved, nothing panics, the
\* queue stays within its capacity and get returns only buffers of
\* length zero.
C6_ConcurrentSafety ==
    /\ ~panicked
    /\ Len(pool) <= pool_cap
    /\ \A t \in Threads : (pc[t] = "held" /\ written[t] = << >>) => Len(Deref(handle[t])) = 0

\* C6 witness: one thread is about to push into a full queue while the
\* other is about to pop from it.
C6_Witness ==
    \E t \in Threads : \E u \in Threads :
        /\ t # u /\ inner /\ pc[t] = "push" /\ pc[u] = "pop"
        /\ Len(pool) = pool_cap

\* C7 as stated: after acquire, write B (len(B) <= ceiling), drop, acquire
\* with no other activity, the second handle is empty and holds recycled
\* storage of capacity >= len(B).
C7_RoundTripReuses ==
    (rt.phase = "done" /\ rt.blen <= buffer_cap) =>
        /\ handle[rt.t].buf.len = 0
        /\ got[rt.t].recycled
        /\ handle[rt.t].buf.cap >= rt.blen

\* C7 amended: the same, when the queue held at most one buffer at the
\* first acquire (the queue is first-in first-out: with two or more
\* resident buffers the second acquire pops an older one).
C7_RoundTripReusesShortQueue ==
    (rt.phase = "done" /\ rt.blen <= buffer_cap /\ rt.q0 <= 1) =>
        /\ handle[rt.t].buf.len = 0
        /\ got[rt.t].recycled
        /\ handle[rt.t].buf.cap >= rt.blen

\* C7 witness: a completed round trip that wrote at least one byte.
C7_Witness ==
    /\ rt.phase = "done" /\ rt.q0 <= 1 /\ rt.blen >= 1 /\ rt.blen <= buffer_cap
    /\ handle[rt.t].buf.cap >= rt.blen

C9_NeverBlocks ==
    \A t \in Threads :
        /\ (InGet(t) \/ InDrop(t)) => ENABLED OpStep(t)
        /\ (pc[t] = "idle" /\ owner[t]) => ENABLED Get(t)
        /\ pc[t] = "held" => ENABLED DropTake(t)
        /\ opSteps[t] <= 3

\* C9 witness: a push met a full queue and went on to the end of the
\* drop while the other thread stood still in the middle of its get.
C9_Witness ==
    \E t \in Threads : \E u \in Threads :
        /\ t # u
        /\ pc[t] = "release" /\ taken[t].pushed = "dropped"
        /\ InGet(u)

\* C10: the Inner (and its queue) is alive exactly as long as a BufferPool
\* value or a handle refers to it, and no step ever touches a freed Inner.
C10_PoolOutlivesReferences ==
    inner =>
        /\ alive <=> (\E t \in Threads : owner[t] \/ HoldsArc(t))
        /\ strong = Cardinality({t \in Threads : owner[t]})
                    + Cardinality({t \in Threads : HoldsArc(t)})
        /\ ~panicked

\* C10 witness: every BufferPool value is gone and a handle dropped after
\* that has stored its buffer in the queue.
C10_Witness ==
    /\ inner /\ \A t \in Threads : ~owner[t]
    /\ \E t \in Threads : pc[t] = "release" /\ taken[t].pushed = "stored"
    /\ pool # << >>


\* C11: a setting whose environment variable is unset takes its default,
\* pool capacity 128 and ceiling 4 MiB; with both unset the pool is enabled
\* and starts with an empty queue of 128 slots.
C11_DefaultsWhenUnset ==
    /\ ~env.pool_cap.set => pool_cap = 128
    /\ ~env.buffer_cap.set => buffer_cap = 4 * 1024 * 1024
    /\ (~env.pool_cap.set /\ ~env.buffer_cap.set) =>
        /\ inner
        /\ rt.phase = "new" => (pool = << >> /\ alive /\ strong = 1)
        /\ Len(pool) < 128 => ~QueueFull(pool, pool_cap)

\* C11 witness: with both settings unset the queue holds more buffers than
\* the largest explicit capacity of the model allows.
C11_Witness ==
    /\ ~env.pool_cap.set /\ ~env.buffer_cap.set
    /\ Len(pool) = Cardinality(Threads)


\* C12: every buffer resident in the queue has length zero.
C12_ResidentLengthZero ==
    \A i \in 1..Len(pool) : pool[i].vec.len = 0

\* C13: a push of a drop that finds the queue full leaves the queue exactly
\* as it was, gives the buffer up and raises no panic.
C13_FullQueueDiscards ==
    [][\A t \in Threads :
        (inner /\ pc[t] = "push" /\ pc'[t] = "release" /\ QueueFull(pool, pool_cap))
            => (pool' = pool /\ buf'[t] = EmptyVec /\ ~panicked'
                /\ taken'[t].pushed = "dropped")]_vars

\* C13 witness: a drop has discarded its buffer and the full queue still
\* holds its buffers.
C13_Witness ==
    \E t \in Threads :
        /\ inner /\ ~panicked /\ pc[t] = "release" /\ taken[t].pushed = "dropped"
        /\ pool # << >> /\ QueueFull(pool, pool_cap)

\* C14: a get on an enabled pool that finds the queue empty hands out a
\* fresh empty buffer (length 0, capacity 0) with a back-reference and
\* leaves the queue empty; the drop of that handle stores its buffer.
C14_EmptyQueueAllocates ==
    /\ \A t \in Threads :
        /\ (inner /\ pc[t] \in {"setlen", "wrap"} /\ ~got[t].recycled)
              => buf[t] = EmptyVec
        /\ (inner /\ Untouched(t) /\ ~got[t].recycled)
              => handle[t] = [buf |-> EmptyVec, origin |-> TRUE]
    /\ (rt.phase = "first" /\ rt.q0 = 0 /\ pc[rt.t] \in {"setlen", "wrap", "held"})
          => (pool = << >> /\ ~got[rt.t].recycled)
    /\ (rt.phase = "dropped" /\ rt.q0 = 0)
          => (Len(pool) = 1 /\ pool[1].vec.len = rt.blen)

\* C14 witness: a handle acquired from an empty queue was written to and
\* dropped, and the queue now holds its buffer.
C14_Witness ==
    rt.phase = "dropped" /\ rt.q0 = 0 /\ rt.blen > 0 /\ Len(pool) = 1

\* C15: get does not change the capacity of a recycled buffer: the pop
\* takes the oldest entry and leaves the others, and neither the length
\* reset nor the wrapping into a handle touches capacity or queue.
C15_GetKeepsCapacity ==
    [][\A t \in Threads :
        /\ (pc[t] = "pop" /\ pc'[t] = "setlen" /\ pool # << >>)
              => (pool' = Tail(pool) /\ buf'[t].cap = Head(pool).vec.cap)
        /\ (pc[t] = "setlen" /\ pc'[t] = "wrap")
              => (buf'[t].cap = buf[t].cap /\ pool' = pool)
        /\ (pc[t] = "wrap" /\ pc'[t] = "held")
              => (handle'[t].buf.cap = buf[t].cap /\ pool' = pool
                  /\ (got[t].recycled => handle'[t].buf.cap = got[t].cap))]_vars

\* C15 witness: a recycled buffer with capacity was handed out with that
\* capacity while another buffer stayed in the queue.
C15_Witness ==
    \E t \in Threads :
        /\ Untouched(t) /\ got[t].recycled /\ got[t].cap > 0
        /\ handle[t].buf.cap = got[t].cap /\ pool # << >>

\* C17: put leaves the length and the bytes of the buffer as they were at
\* the drop and brings the capacity to min(capacity, max(length, ceiling));
\* a stored buffer keeps its length until the get that pops it resets it.
C17_PutKeepsLength ==
    /\ \A t \in Threads :
        /\ pc[t] = "shrink" =>
              (buf[t].len = taken[t].len /\ buf[t].cap = taken[t].cap)
        /\ pc[t] = "push" =>
              /\ buf[t].len = taken[t].len
              /\ SubSeq(buf[t].mem, 1, buf[t].len) = taken[t].view
              /\ buf[t].cap = Min(taken[t].cap, Max(taken[t].len, buffer_cap))
        /\ (pc[t] = "setlen" /\ got[t].recycled) => buf[t].len = got[t].len
        /\ pc[t] = "wrap" => buf[t].len = 0
    /\ \A i \in 1..Len(pool) :
        pool[i].vec.cap = Min(pool[i].dropCap, Max(pool[i].vec.len, buffer_cap))

\* C17 witness: the queue holds a buffer that kept a length above the
\* ceiling, and with it a capacity above the ceiling.
C17_Witness ==
    \E i \in 1..Len(pool) :
        /\ pool[i].vec.len > buffer_cap
        /\ pool[i].vec.cap = pool[i].vec.len
        /\ pool[i].dropCap > buffer_cap

\* The places that hold the storage of a buffer are the handle and the
\* local `buf` of each thread and the slots of the queue (a Vec of capacity
\* 0 has no storage).  In a step a place gains a storage or loses one:
HandleGains(t) == handle[t].buf.cap = 0 /\ handle'[t].buf.cap > 0
HandleLoses(t) == handle[t].buf.cap > 0 /\ handle'[t].buf.cap = 0
LocalGains(t) == buf[t].cap = 0 /\ buf'[t].cap > 0
LocalLoses(t) == buf[t].cap > 0 /\ buf'[t].cap = 0
QueueGains == Len(pool') = Len(pool) + 1 /\ pool'[Len(pool')].vec.cap > 0
QueueLoses == pool # << >> /\ pool' = Tail(pool) /\ Head(pool).vec.cap > 0
\* this step is a write of thread t that allocates the storage of its handle
Allocates(t) == pc[t] = "held" /\ pc'[t] = "held" /\ HandleGains(t)

\* C16: a storage is in one place at a time.  A storage comes into a handle,
\* into the hands of a get or a drop, or into a queue slot only in a step in
\* which it leaves the place it was in (or a write allocates it): a handle
\* takes it from the get, a get from the queue, a drop from the handle, the
\* queue from the drop, so no two handles, no handle and slot, and no two
\* gets hold the same storage.
C16_ExclusiveOwnership ==
    [][/\ \A t \in Threads :
            /\ HandleGains(t) => (Allocates(t) \/ LocalLoses(t))
            /\ LocalGains(t) => (HandleLoses(t) \/ QueueLoses)
       /\ QueueGains => \E t \in Threads : LocalLoses(t)]_vars

\* C16 witness: the two threads popped at the same time, each got one of
\* the two stored buffers, and the queue kept neither.
C16_Witness ==
    \E t \in Threads : \E u \in Threads :
        /\ t # u /\ pc[t] = "setlen" /\ pc[u] = "setlen"
        /\ got[t].recycled /\ got[u].recycled
        /\ buf[t].cap > 0 /\ buf[u].cap > 0
        /\ pool = << >>

====
